---------------------------- MODULE Spec2Model ----------------------------
(***************************************************************************)
(* Access-token lifecycle of the contacts frontend                         *)
(* (frontend/src/auth.ts and the two server loads that resolve the         *)
(* session).  The browser cookie holds the Token Record; every call of     *)
(* locals.auth() decodes the cookie sent with the page request, runs the   *)
(* jwt callback (reuse / refresh), runs the session callback and sets the  *)
(* re-encoded record as the response cookie.                               *)
(***************************************************************************)
EXTENDS Integers, FiniteSets, Sequences, TLC

(***************************************************************************)
(* Bound of the model.  Time is epoch milliseconds; the clock advances by  *)
(* whole seconds up to MaxSec seconds.                                     *)
(***************************************************************************)
MaxSec == 1

\* the longest tail, in tokens, of a callback URL handed to redirect
MaxTail == 4

\* the most refresh tokens the token endpoint issues to one session
MaxIssue == 3

\* auth.ts:34 and auth.ts:63, "* 1000": seconds to milliseconds
MsPerSec == 1000

(***************************************************************************)
(* JavaScript values.  A string-valued property is a string or Undefined;  *)
(* a number is a record so that NaN, undefined and null stay apart from    *)
(* the integers.                                                           *)
(***************************************************************************)
Undefined == "undefined"
RefreshAccessTokenError == "RefreshAccessTokenError"

Num(n) == [k |-> "num", n |-> n]
NaN == [k |-> "NaN", n |-> 0]
UndefNum == [k |-> "undefined", n |-> 0]
NullNum == [k |-> "null", n |-> 0]

\* a * b on JavaScript numbers: undefined and NaN give NaN, null counts as 0
JsMul(a, b) ==
    IF a.k \in {"NaN", "undefined"} \/ b.k \in {"NaN", "undefined"} THEN NaN
    ELSE Num((IF a.k = "null" THEN 0 ELSE a.n) * (IF b.k = "null" THEN 0 ELSE b.n))

\* a + b on JavaScript numbers
JsAdd(a, b) ==
    IF a.k \in {"NaN", "undefined"} \/ b.k \in {"NaN", "undefined"} THEN NaN
    ELSE Num((IF a.k = "null" THEN 0 ELSE a.n) + (IF b.k = "null" THEN 0 ELSE b.n))

\* a < b on JavaScript numbers: false as soon as one side is NaN or undefined
JsLt(a, b) ==
    IF a.k \in {"NaN", "undefined"} \/ b.k \in {"NaN", "undefined"} THEN FALSE
    ELSE (IF a.k = "null" THEN 0 ELSE a.n) < (IF b.k = "null" THEN 0 ELSE b.n)

\* a ?? b
Coalesce(a, b) == IF a = Undefined THEN b ELSE a

(***************************************************************************)
(* The Token Record (the JWT payload).                                     *)
(***************************************************************************)
\* the token Auth.js hands to the jwt callback at sign-in: the user claims only
DefaultToken(user) ==
    [user |-> user, accessToken |-> Undefined, refreshToken |-> Undefined,
     accessTokenExpires |-> UndefNum, error |-> Undefined]

NoToken == DefaultToken(Undefined)

\* the cookie jar without a session cookie
NoCookie == [present |-> FALSE, token |-> NoToken]

\* JSON encoding of the payload: NaN is written as null, an undefined property
\* is dropped and reads back as undefined
Encode(token) ==
    [present |-> TRUE,
     token |-> [token EXCEPT !.accessTokenExpires =
                    IF @.k = "NaN" THEN NullNum ELSE @]]

Decode(cookie) == cookie.token

(***************************************************************************)
(* refreshAccessToken (auth.ts:10-45).  The outcome of the fetch is a      *)
(* record: net = "error" when fetch rejects; otherwise ok is response.ok,  *)
(* json tells whether response.json() resolves, and body holds the parsed  *)
(* properties.                                                             *)
(***************************************************************************)
Body(a, e, r) == [access_token |-> a, expires_in |-> e, refresh_token |-> r]

ErrorBody == Body(Undefined, UndefNum, Undefined)

NetworkError == [net |-> "error", ok |-> FALSE, json |-> FALSE, body |-> ErrorBody]

Http(ok, json, body) == [net |-> "ok", ok |-> ok, json |-> json, body |-> body]

\* the try block reaches the catch: fetch rejected, response.json() threw,
\* or !response.ok made it throw the body
Throws(resp) == resp.net = "error" \/ ~resp.json \/ ~resp.ok

\* RefreshSuccess that keeps the stored refresh token whatever the body holds
RefreshSuccess_NoRotation(token, body, t) ==
    [token EXCEPT
        !.accessToken = body.access_token,
        !.accessTokenExpires = JsAdd(Num(t), JsMul(body.expires_in, Num(MsPerSec))),
        !.refreshToken = token.refreshToken]

\* RefreshSuccess that adds expires_in to the clock without converting it
RefreshSuccess_Seconds(token, body, t) ==
    [token EXCEPT
        !.accessToken = body.access_token,
        !.accessTokenExpires = JsAdd(Num(t), body.expires_in),
        !.refreshToken = Coalesce(body.refresh_token, token.refreshToken)]

\* auth.ts:31-36, evaluated at time t (Date.now() when the body has been read)
\* RefreshSuccess that leaves the expiry of the old access token in place
RefreshSuccess_KeepsExpiry(token, body, t) ==
    [token EXCEPT
        !.accessToken = body.access_token,
        !.refreshToken = Coalesce(body.refresh_token, token.refreshToken)]

RefreshSuccess(token, body, t) ==
    [token EXCEPT
        !.accessToken = body.access_token,
        !.accessTokenExpires = JsAdd(Num(t), JsMul(body.expires_in, Num(MsPerSec))),
        !.refreshToken = Coalesce(body.refresh_token, token.refreshToken)]

\* RefreshFailure that also drops the stale access token
RefreshFailure_Clears(token) ==
    [token EXCEPT !.accessToken = Undefined, !.error = RefreshAccessTokenError]

\* auth.ts:37-44
\* RefreshFailure that returns the error marker alone, without the spread
RefreshFailure_Bare(token) == [NoToken EXCEPT !.error = RefreshAccessTokenError]

RefreshFailure(token) == [token EXCEPT !.error = RefreshAccessTokenError]

\* RefreshGrant that posts the access token in place of the refresh token
RefreshGrant_AccessToken(token) == token.accessToken

\* auth.ts:17-22, the refresh_token parameter of the POST body
RefreshGrant(token) == token.refreshToken

refreshAccessToken(token, resp, t) ==
    IF Throws(resp) THEN RefreshFailure(token)
    ELSE RefreshSuccess(token, resp.body, t)

(***************************************************************************)
(* callbacks.jwt (auth.ts:58-74)                                           *)
(***************************************************************************)
\* JwtSignIn that takes expires_at for milliseconds
JwtSignIn_NoScale(token, account) ==
    [token EXCEPT
        !.accessToken = account.access_token,
        !.refreshToken = account.refresh_token,
        !.accessTokenExpires = account.expires_at]

\* auth.ts:60-65, the sign-in branch
JwtSignIn(token, account) ==
    [token EXCEPT
        !.accessToken = account.access_token,
        !.refreshToken = account.refresh_token,
        !.accessTokenExpires = JsMul(account.expires_at, Num(MsPerSec))]

\* TokenFresh with the comparison turned around
TokenFresh_Reversed(token, t) == JsLt(token.accessTokenExpires, Num(t))

\* TokenFresh that treats a record marked with the error as settled
TokenFresh_Sticky(token, t) ==
    token.error = RefreshAccessTokenError \/ JsLt(Num(t), token.accessTokenExpires)

\* auth.ts:68, Date.now() < token.accessTokenExpires at time t
TokenFresh(token, t) == JsLt(Num(t), token.accessTokenExpires)

(***************************************************************************)
(* callbacks.session (auth.ts:75-80).  Auth.js passes the session it built *)
(* from the user claims: { user, expires }.                                *)
(***************************************************************************)
DefaultSession(token) == [user |-> token.user, expires |-> "maxAge"]

\* SessionCallback that also copies the refresh token into the session
SessionCallback_Spread(session, token) ==
    [user |-> session.user, expires |-> session.expires,
     accessToken |-> token.accessToken, error |-> token.error,
     refreshToken |-> token.refreshToken]

SessionCallback(session, token) ==
    [user |-> session.user, expires |-> session.expires,
     accessToken |-> token.accessToken, error |-> token.error]

NullSession == [present |-> FALSE, value |-> SessionCallback(DefaultSession(NoToken), NoToken)]

SessionOf(token) ==
    [present |-> TRUE, value |-> SessionCallback(DefaultSession(token), token)]

(***************************************************************************)
(* The redirect callback (auth.ts:81-91).  A string is the sequence of its *)
(* tokens; no token is a prefix of another, so one string has one          *)
(* sequence and startsWith on strings is the prefix order on sequences.    *)
(***************************************************************************)
StartsWith(s, prefix) ==
    /\ Len(prefix) <= Len(s)
    /\ SubSeq(s, 1, Len(prefix)) = prefix

Signin == <<"/", "signin">>
Contacts == <<"/", "contacts">>

SpecialSchemes == {"https:", "HTTPS:", "http:"}
Schemes == SpecialSchemes \cup {"mailto:"}

\* the URL parser lower-cases the scheme
Lower(tok) == IF tok = "HTTPS:" THEN "https:" ELSE tok

\* the origin of a URL whose scheme is not special serialises as "null"
NullOrigin == <<"null">>

\* after a special scheme the parser skips every slash before the authority
RECURSIVE DropSlashes(_)
DropSlashes(s) ==
    IF s # <<>> /\ Head(s) = "/" THEN DropSlashes(Tail(s)) ELSE s

\* the authority ends at the first "/" or "?" or at the end of the string
Authority(s) ==
    LET Ends == { i \in 1..Len(s) : s[i] \in {"/", "?"} }
        end == IF Ends = {} THEN Len(s) + 1
                            ELSE CHOOSE i \in Ends : \A j \in Ends : i <= j
    IN  SubSeq(s, 1, end - 1)

\* the host is what follows the last "@" of the authority (userinfo before)
HostOf(authority) ==
    LET Ats == { i \in 1..Len(authority) : authority[i] = "@" }
        last == IF Ats = {} THEN 0
                            ELSE CHOOSE i \in Ats : \A j \in Ats : j <= i
    IN  SubSeq(authority, last + 1, Len(authority))

InvalidUrl == [throws |-> TRUE, origin |-> NullOrigin]

\* new URL(url).origin: throws without a scheme or with an empty host
ParseUrl(url) ==
    IF url = <<>> \/ Head(url) \notin Schemes THEN InvalidUrl
    ELSE IF Head(url) \in SpecialSchemes
    THEN LET host == HostOf(Authority(DropSlashes(Tail(url))))
         IN  IF host = <<>> THEN InvalidUrl
             ELSE [throws |-> FALSE,
                   origin |-> <<Lower(Head(url)), "/", "/">> \o host]
    ELSE IF StartsWith(Tail(url), <<"/", "/">>)
    THEN LET authority == Authority(SubSeq(url, 4, Len(url)))
         IN  IF (\E i \in 1..Len(authority) : authority[i] = "@")
                /\ HostOf(authority) = <<>>
             THEN InvalidUrl
             ELSE [throws |-> FALSE, origin |-> NullOrigin]
    ELSE [throws |-> FALSE, origin |-> NullOrigin]

Origin(url) == ParseUrl(url).origin

Returns(value) == [throws |-> FALSE, value |-> value]
ThrowsTypeError == [throws |-> TRUE, value |-> <<>>]

\* IsSigninUrl that matches the sign-in page alone, not what extends it
IsSigninUrl_Exact(url, baseUrl) == url = baseUrl \o Signin

\* auth.ts:83
IsSigninUrl(url, baseUrl) == StartsWith(url, baseUrl \o Signin)

\* RelativeTarget that returns the path without the base in front
RelativeTarget_Bare(url, baseUrl) == url

\* auth.ts:87
RelativeTarget(url, baseUrl) == baseUrl \o url

\* OnBaseOrigin that looks for the base at the front of the url
OnBaseOrigin_Prefix(url, baseUrl) == StartsWith(url, baseUrl)

\* auth.ts:89
OnBaseOrigin(url, baseUrl) == Origin(url) = baseUrl

\* redirect that returns every url that parses, whatever its origin
redirect_AnyAbsolute(url, baseUrl) ==
    IF IsSigninUrl(url, baseUrl) THEN Returns(baseUrl \o Contacts)
    ELSE IF StartsWith(url, <<"/">>) THEN Returns(RelativeTarget(url, baseUrl))
    ELSE IF ParseUrl(url).throws THEN ThrowsTypeError
    ELSE Returns(url)

redirect(url, baseUrl) ==
    IF IsSigninUrl(url, baseUrl) THEN Returns(baseUrl \o Contacts)
    ELSE IF StartsWith(url, <<"/">>) THEN Returns(RelativeTarget(url, baseUrl))
    ELSE IF ParseUrl(url).throws THEN ThrowsTypeError
    ELSE IF OnBaseOrigin(url, baseUrl) THEN Returns(url)
    ELSE Returns(baseUrl)

(***************************************************************************)
(* Inputs                                                                  *)
(***************************************************************************)
Users == {"alice"}

\* the grant the sign-in callback delivers at time t: expires_at is in epoch
\* seconds, the second of the grant (a token already at its end) or the next
Accounts(t) ==
    { [access_token |-> "A1", refresh_token |-> "R1", expires_at |-> Num(s)] :
        s \in {t \div MsPerSec, t \div MsPerSec + 1} }

RefreshTokens == {"R1", "R2"}

\* what the token endpoint can answer with status 2xx: the new tokens with or
\* without a rotated refresh token, or a body that lacks a property
IdpBodies ==
    {Body("A2", Num(1), "R2"), Body("A2", Num(1), Undefined),
     Body(Undefined, Num(1), Undefined), Body("A2", UndefNum, "R2")}

\* the connection fails, the endpoint answers 4xx with a JSON error, it
\* answers 2xx with a body that is not JSON, or it answers 2xx with JSON
IdpOutcomes ==
    {NetworkError, Http(FALSE, TRUE, ErrorBody), Http(TRUE, FALSE, ErrorBody)}
    \cup { Http(TRUE, TRUE, b) : b \in IdpBodies }

\* what the contacts API can do with the fetch of the page load
ApiOutcomes == {"ok", "notok", "reject"}

Requests == {"r1"}
Loads == {"layout", "page"}

\* the base URL of the deployment: an origin, or written with a trailing
\* slash or with a path
BaseOrigin == <<"https:", "/", "/", "app">>
BaseUrls == {BaseOrigin, BaseOrigin \o <<"/">>, BaseOrigin \o <<"/", "x">>}

\* callback URLs: a head (nothing, or a scheme with or without the slashes
\* and a host) followed by a tail of at most MaxTail tokens
UrlHeads ==
    {<<>>, BaseOrigin, <<"https:", "/", "/", "evil">>,
     <<"HTTPS:", "/", "/", "app">>, <<"http:", "/", "/", "app">>,
     <<"https:", "app">>, <<"mailto:">>}
TailTokens == {"/", "signin", "x", "?", "@"}
UrlTails == UNION { [1..n -> TailTokens] : n \in 0..MaxTail }
Urls == { h \o t : h \in UrlHeads, t \in UrlTails }

(***************************************************************************)
(* State                                                                   *)
(***************************************************************************)
VARIABLES
    now,      \* Date.now()
    cookie,   \* the session cookie of the browser (the persisted Token Record)
    req,      \* the page requests being served
    gate,     \* the calls of locals.auth() of each request, one per load
    redir,    \* the call of the redirect callback
    idp       \* the token endpoint: the refresh token it accepts for the session

vars == <<now, cookie, req, gate, redir, idp>>

\* an endpoint that keeps no record of the session
IdleIdp == [valid |-> Undefined, issued |-> 0]

IdleRedirect ==
    [pc |-> "idle", url |-> <<>>, baseUrl |-> <<>>, out |-> ThrowsTypeError,
     again |-> ThrowsTypeError]

IdleGate ==
    [pc |-> "idle", token |-> NoToken, calls |-> 0, sent |-> Undefined,
     expired |-> FALSE, resp |-> NetworkError, t0 |-> 0,
     out |-> NoToken, session |-> NullSession, at |-> 0]

ReadyGate == [IdleGate EXCEPT !.pc = "ready"]

IdleReq ==
    [kind |-> "none", jar |-> NoCookie, setCookie |-> NoCookie,
     bearer |-> Undefined, result |-> "none"]

Init ==
    /\ now = 0
    /\ cookie = NoCookie
    /\ req = [r \in Requests |-> IdleReq]
    /\ gate = [r \in Requests |-> [w \in Loads |-> IdleGate]]
    /\ redir = IdleRedirect
    /\ idp = IdleIdp

(***************************************************************************)
(* Actions                                                                 *)
(***************************************************************************)
\* time passes
Tick ==
    /\ now + MsPerSec <= MaxSec * MsPerSec
    /\ now' = now + MsPerSec
    /\ UNCHANGED <<cookie, req, gate, redir, idp>>

\* the sign-in callback: jwt runs with the account on the default token and
\* the result becomes the session cookie (auth.ts:60-65)
SignIn ==
    /\ \E u \in Users, account \in Accounts(now) :
        cookie' = Encode(JwtSignIn(DefaultToken(u), account))
    /\ UNCHANGED <<now, req, gate, redir, idp>>

\* signOut (auth.ts:47): the session cookie is removed
SignOut ==
    /\ cookie.present
    /\ cookie' = NoCookie
    /\ UNCHANGED <<now, req, gate, redir, idp>>

\* a page request arrives with the browser's cookie; every page runs the root
\* layout load (+layout.server.ts:14-18), /contacts also runs the page load
\* (contacts/+page.server.ts:4-18)
BeginRequest(r) ==
    /\ req[r].kind = "none"
    /\ \E kind \in {"page", "contacts"} :
        /\ req' = [req EXCEPT ![r] = [IdleReq EXCEPT !.kind = kind, !.jar = cookie]]
        /\ gate' = [gate EXCEPT ![r] =
                      [w \in Loads |->
                         IF w = "layout" \/ kind = "contacts"
                         THEN ReadyGate ELSE IdleGate]]
    /\ UNCHANGED <<now, cookie, redir, idp>>

\* AuthNoSession that runs jwt on an empty token, which counts as expired
AuthNoSession_Refreshes(r, w) ==
    /\ gate[r][w].pc = "ready"
    /\ ~req[r].jar.present
    /\ gate' = [gate EXCEPT ![r][w] =
                  [@ EXCEPT !.pc = "fetching", !.expired = TRUE, !.calls = @ + 1]]
    /\ UNCHANGED <<now, cookie, req, redir, idp>>

\* locals.auth() with no session cookie: the session is null, jwt is not run
AuthNoSession(r, w) ==
    /\ gate[r][w].pc = "ready"
    /\ ~req[r].jar.present
    /\ gate' = [gate EXCEPT ![r][w] =
                  [@ EXCEPT !.pc = "done", !.at = now]]
    /\ UNCHANGED <<now, cookie, req, redir, idp>>

\* locals.auth() with a fresh token: jwt returns it (auth.ts:68-70), session
\* projects it, the record is set again as the response cookie
AuthFresh(r, w) ==
    /\ gate[r][w].pc = "ready"
    /\ req[r].jar.present
    /\ LET token == Decode(req[r].jar) IN
        /\ TokenFresh(token, now)
        /\ gate' = [gate EXCEPT ![r][w] =
                      [@ EXCEPT !.pc = "done", !.token = token,
                                !.expired = ~JsLt(Num(now), token.accessTokenExpires),
                                !.out = token, !.session = SessionOf(token),
                                !.at = now]]
        /\ req' = [req EXCEPT ![r].setCookie = Encode(token)]
    /\ UNCHANGED <<now, cookie, redir, idp>>

\* locals.auth() with an expired token: jwt calls refreshAccessToken, which
\* posts the stored refresh token to the token endpoint (auth.ts:73, 14-23)
AuthExpired(r, w) ==
    /\ gate[r][w].pc = "ready"
    /\ req[r].jar.present
    /\ LET token == Decode(req[r].jar) IN
        /\ ~TokenFresh(token, now)
        /\ gate' = [gate EXCEPT ![r][w] =
                      [@ EXCEPT !.pc = "fetching", !.token = token,
                                !.expired = ~JsLt(Num(now), token.accessTokenExpires),
                                !.calls = @ + 1,
                                !.sent = RefreshGrant(token)]]
    /\ UNCHANGED <<now, cookie, req, redir, idp>>

\* the token endpoint answers (or the connection fails) at time t0
IdpAnswer(r, w) ==
    /\ gate[r][w].pc = "fetching"
    /\ \E resp \in IdpOutcomes :
        gate' = [gate EXCEPT ![r][w] =
                   [@ EXCEPT !.pc = "responded", !.resp = resp, !.t0 = now]]
    /\ UNCHANGED <<now, cookie, req, redir, idp>>

\* the awaits of refreshAccessToken resolve: the record is rebuilt
\* (auth.ts:25-44), session projects it and the response cookie is set
AuthResume(r, w) ==
    /\ gate[r][w].pc = "responded"
    /\ LET out == refreshAccessToken(gate[r][w].token, gate[r][w].resp, now) IN
        /\ gate' = [gate EXCEPT ![r][w] =
                      [@ EXCEPT !.pc = "done", !.out = out,
                                !.session = SessionOf(out), !.at = now]]
        /\ req' = [req EXCEPT ![r].setCookie = Encode(out)]
    /\ UNCHANGED <<now, cookie, redir, idp>>

\* the contacts page load fetches the list with the bearer token of its own
\* session (contacts/+page.server.ts:6-17)
ContactsFetch(r) ==
    /\ req[r].kind = "contacts"
    /\ req[r].result = "none"
    /\ gate[r]["page"].pc = "done"
    /\ \E api \in ApiOutcomes :
        req' = [req EXCEPT
                  ![r].bearer = IF gate[r]["page"].session.present
                                THEN gate[r]["page"].session.value.accessToken
                                ELSE Undefined,
                  ![r].result = CASE api = "ok" -> "contacts"
                                  [] api = "notok" -> "empty"
                                  [] OTHER -> "throws"]
    /\ UNCHANGED <<now, cookie, gate, redir, idp>>

\* the response reaches the browser, which stores the cookie it carries
Respond(r) ==
    /\ req[r].kind # "none"
    /\ gate[r]["layout"].pc = "done"
    /\ req[r].kind = "contacts" => req[r].result # "none"
    /\ cookie' = IF req[r].setCookie.present THEN req[r].setCookie ELSE cookie
    /\ req' = [req EXCEPT ![r] = IdleReq]
    /\ gate' = [gate EXCEPT ![r] = [w \in Loads |-> IdleGate]]
    /\ UNCHANGED <<now, redir, idp>>

Next ==
    \/ Tick
    \/ SignIn
    \/ SignOut
    \/ \E r \in Requests : BeginRequest(r)
    \/ \E r \in Requests, w \in Loads : AuthNoSession(r, w)
    \/ \E r \in Requests, w \in Loads : AuthFresh(r, w)
    \/ \E r \in Requests, w \in Loads : AuthExpired(r, w)
    \/ \E r \in Requests, w \in Loads : IdpAnswer(r, w)
    \/ \E r \in Requests, w \in Loads : AuthResume(r, w)
    \/ \E r \in Requests : ContactsFetch(r)
    \/ \E r \in Requests : Respond(r)

Spec == Init /\ [][Next]_vars

(***************************************************************************)
(* Two page requests of one signed-in session served at the same time.     *)
(* Each runs the root layout load only; the session stays signed in.       *)
(***************************************************************************)
RaceRequests == {"r1", "r2"}

InitRace ==
    /\ now = 0
    /\ cookie \in { Encode(JwtSignIn(DefaultToken(u), account)) :
                      u \in Users, account \in Accounts(0) }
    /\ req = [r \in RaceRequests |-> IdleReq]
    /\ gate = [r \in RaceRequests |-> [w \in Loads |-> IdleGate]]
    /\ redir = IdleRedirect
    /\ idp = IdleIdp

\* a request for a page other than /contacts: the root layout load alone
\* (+layout.server.ts:14-18)
BeginPageRequest(r) ==
    /\ req[r].kind = "none"
    /\ req' = [req EXCEPT ![r] = [IdleReq EXCEPT !.kind = "page", !.jar = cookie]]
    /\ gate' = [gate EXCEPT ![r] =
                  [w \in Loads |-> IF w = "layout" THEN ReadyGate ELSE IdleGate]]
    /\ UNCHANGED <<now, cookie, redir, idp>>

NextRace ==
    \/ Tick
    \/ \E r \in RaceRequests : BeginPageRequest(r)
    \/ \E r \in RaceRequests : AuthFresh(r, "layout")
    \/ \E r \in RaceRequests : AuthExpired(r, "layout")
    \/ \E r \in RaceRequests : IdpAnswer(r, "layout")
    \/ \E r \in RaceRequests : AuthResume(r, "layout")
    \/ \E r \in RaceRequests : Respond(r)

SpecRace == InitRace /\ [][NextRace]_vars

(***************************************************************************)
(* One session against a token endpoint that rotates refresh tokens: each  *)
(* successful exchange issues a new refresh token and the endpoint accepts *)
(* the newest one only.  Requests do not overlap (one is served at a       *)
(* time); the endpoint may also be unreachable.                            *)
(***************************************************************************)
\* the n-th refresh token of the session ("R1" is the one of the sign-in)
IssuedToken(n) == "R" \o ToString(n)

InitRotate ==
    /\ now = 0
    /\ cookie \in { Encode(JwtSignIn(DefaultToken(u), account)) :
                      u \in Users, account \in Accounts(0) }
    /\ req = [r \in Requests |-> IdleReq]
    /\ gate = [r \in Requests |-> [w \in Loads |-> IdleGate]]
    /\ redir = IdleRedirect
    /\ idp = [valid |-> IssuedToken(1), issued |-> 1]

\* the endpoint receives the POST of auth.ts:14-23: it accepts the newest
\* refresh token and answers with the next one, and rejects any other
IdpRotate(r, w) ==
    /\ gate[r][w].pc = "fetching"
    /\ IF gate[r][w].sent = idp.valid
       THEN /\ idp.issued < MaxIssue
            /\ idp' = [valid |-> IssuedToken(idp.issued + 1),
                       issued |-> idp.issued + 1]
            /\ gate' = [gate EXCEPT ![r][w] =
                          [@ EXCEPT !.pc = "responded", !.t0 = now,
                                    !.resp = Http(TRUE, TRUE,
                                               Body("A2", Num(1), idp'.valid))]]
       ELSE /\ idp' = idp
            /\ gate' = [gate EXCEPT ![r][w] =
                          [@ EXCEPT !.pc = "responded", !.t0 = now,
                                    !.resp = Http(FALSE, TRUE, ErrorBody)]]
    /\ UNCHANGED <<now, cookie, req, redir>>

\* the endpoint is unreachable: the fetch of auth.ts:14 rejects
IdpUnavailable(r, w) ==
    /\ gate[r][w].pc = "fetching"
    /\ gate' = [gate EXCEPT ![r][w] =
                  [@ EXCEPT !.pc = "responded", !.t0 = now,
                            !.resp = NetworkError]]
    /\ UNCHANGED <<now, cookie, req, redir, idp>>

NextRotate ==
    \/ Tick
    \/ \E r \in Requests : BeginRequest(r)
    \/ \E r \in Requests, w \in Loads : AuthFresh(r, w)
    \/ \E r \in Requests, w \in Loads : AuthExpired(r, w)
    \/ \E r \in Requests, w \in Loads : IdpRotate(r, w)
    \/ \E r \in Requests, w \in Loads : IdpUnavailable(r, w)
    \/ \E r \in Requests, w \in Loads : AuthResume(r, w)
    \/ \E r \in Requests : ContactsFetch(r)
    \/ \E r \in Requests : Respond(r)

SpecRotate == InitRotate /\ [][NextRotate]_vars

(***************************************************************************)
(* A session whose record is expired, with or without the mark of a failed *)
(* refresh, while requests keep arriving and the token endpoint answers    *)
(* every refresh call with new tokens and expires_in > 0.  Date.now() has  *)
(* no upper bound; the callbacks read only how accessTokenExpires lies to  *)
(* Date.now(), so the clock is kept in range by counting from an epoch one *)
(* second later whenever no request is being served.                       *)
(***************************************************************************)
InitLive ==
    /\ now = 0
    /\ cookie \in { Encode([JwtSignIn(DefaultToken(u), account)
                                EXCEPT !.error = e]) :
                      u \in Users,
                      account \in { a \in Accounts(0) : a.expires_at = Num(0) },
                      e \in {Undefined, RefreshAccessTokenError} }
    /\ req = [r \in Requests |-> IdleReq]
    /\ gate = [r \in Requests |-> [w \in Loads |-> IdleGate]]
    /\ redir = IdleRedirect
    /\ idp = IdleIdp

\* the same instant read on a clock whose epoch is one second later
Rebased(token) ==
    [token EXCEPT !.accessTokenExpires =
        IF @.k = "num"
        THEN Num(IF @.n >= MsPerSec THEN @.n - MsPerSec ELSE 0)
        ELSE @]

Rebase ==
    /\ now >= MsPerSec
    /\ \A r \in Requests : req[r].kind = "none"
    /\ now' = now - MsPerSec
    /\ cookie' = [cookie EXCEPT !.token = Rebased(@)]
    /\ UNCHANGED <<req, gate, redir, idp>>

\* the token endpoint answers 2xx with new tokens and expires_in > 0
IdpAnswerOk(r, w) ==
    /\ gate[r][w].pc = "fetching"
    /\ \E body \in { b \in IdpBodies : b.access_token # Undefined
                                         /\ JsLt(Num(0), b.expires_in) } :
        gate' = [gate EXCEPT ![r][w] =
                   [@ EXCEPT !.pc = "responded", !.t0 = now,
                             !.resp = Http(TRUE, TRUE, body)]]
    /\ UNCHANGED <<now, cookie, req, redir, idp>>

\* what serving a request consists of
Serve ==
    \/ \E r \in Requests : BeginRequest(r)
    \/ \E r \in Requests, w \in Loads : AuthFresh(r, w)
    \/ \E r \in Requests, w \in Loads : AuthExpired(r, w)
    \/ \E r \in Requests, w \in Loads : IdpAnswerOk(r, w)
    \/ \E r \in Requests, w \in Loads : AuthResume(r, w)
    \/ \E r \in Requests : ContactsFetch(r)
    \/ \E r \in Requests : Respond(r)

NextLive == Tick \/ Rebase \/ Serve

\* requests keep arriving and every step of serving one is taken in the
\* end; nothing is asked of the clock
SpecLive == InitLive /\ [][NextLive]_vars /\ WF_vars(Serve)

(***************************************************************************)
(* The redirect callback alone: Auth.js calls it with a callback URL and   *)
(* the base URL, and it returns the target or throws.                      *)
(***************************************************************************)
InitRedirect ==
    /\ now = 0
    /\ cookie = NoCookie
    /\ req = [r \in Requests |-> IdleReq]
    /\ gate = [r \in Requests |-> [w \in Loads |-> IdleGate]]
    /\ redir \in { [pc |-> "called", url |-> url, baseUrl |-> baseUrl,
                     out |-> ThrowsTypeError, again |-> ThrowsTypeError] :
                    url \in Urls, baseUrl \in BaseUrls }
    /\ idp = IdleIdp

Redirect ==
    /\ redir.pc = "called"
    /\ LET out == redirect(redir.url, redir.baseUrl)
       IN  redir' = [redir EXCEPT !.out = out,
                                  !.pc = IF out.throws THEN "thrown"
                                                       ELSE "returned"]
    /\ UNCHANGED <<now, cookie, req, gate, idp>>

\* the target redirect returned is handed to redirect once more
RedirectAgain ==
    /\ redir.pc = "returned"
    /\ redir' = [redir EXCEPT
                   !.again = redirect(redir.out.value, redir.baseUrl),
                   !.pc = "followed"]
    /\ UNCHANGED <<now, cookie, req, gate, idp>>

NextRedirect == Redirect \/ RedirectAgain

SpecRedirect == InitRedirect /\ [][NextRedirect]_vars

(***************************************************************************)
(* Vocabulary of the properties                                            *)
(***************************************************************************)
Gates == Requests \X Loads

G(p) == gate[p[1]][p[2]]

\* the call of locals.auth() has gone through refreshAccessToken and returned
Refreshed(g) == g.pc = "done" /\ g.calls = 1

\* the exchange failed: no connection, a status outside 2xx, or a body that is
\* not JSON
FailedExchange(resp) == resp.net = "error" \/ ~resp.ok \/ ~resp.json

\* the endpoint answered 2xx with a JSON body
OkJson(resp) == resp.net = "ok" /\ resp.ok /\ resp.json

\* the endpoint answered 2xx with access_token and expires_in
SuccessfulExchange(resp) ==
    /\ OkJson(resp)
    /\ resp.body.access_token # Undefined
    /\ resp.body.expires_in.k = "num"

\* the number of refresh calls made while serving request r
\* the redirect callback has been called and has returned or thrown
Redirected == redir.pc \in {"returned", "thrown", "followed"}

\* an absolute URL: one that new URL(url) parses without a base
IsAbsolute(url) == ~ParseUrl(url).throws

Calls(r) == gate[r]["layout"].calls + gate[r]["page"].calls

(***************************************************************************)
(* C1.  Every Session that carries an accessToken carries one that is      *)
(* unexpired at the moment the Session is produced: now is before the      *)
(* accessTokenExpires of the record it was projected from.                 *)
(***************************************************************************)
C1_SessionTokenUnexpired ==
    \A p \in Gates :
        (/\ G(p).pc = "done"
         /\ G(p).session.present
         /\ G(p).session.value.accessToken # Undefined)
        => JsLt(Num(G(p).at), G(p).out.accessTokenExpires)

(***************************************************************************)
(* C2.  A successful refresh replaces accessToken and accessTokenExpires   *)
(* by the new values and clears the error: the record has no error and the *)
(* Session of that request has error undefined.                            *)
(***************************************************************************)
C2_SuccessClearsError ==
    \A p \in Gates :
        (Refreshed(G(p)) /\ SuccessfulExchange(G(p).resp))
        => /\ G(p).out.accessToken = G(p).resp.body.access_token
           /\ G(p).out.accessTokenExpires =
                Num(G(p).at + G(p).resp.body.expires_in.n * MsPerSec)
           /\ G(p).out.error = Undefined
           /\ G(p).session.value.error = Undefined

(***************************************************************************)
(* C3.  A failed refresh leaves accessToken, refreshToken and              *)
(* accessTokenExpires as they were, sets error = RefreshAccessTokenError,  *)
(* and the Session of that request carries the stale accessToken with      *)
(* that error.                                                             *)
(***************************************************************************)
C3_FailurePreservesTokens ==
    \A p \in Gates :
        (Refreshed(G(p)) /\ FailedExchange(G(p).resp))
        => /\ G(p).out.accessToken = G(p).token.accessToken
           /\ G(p).out.refreshToken = G(p).token.refreshToken
           /\ G(p).out.accessTokenExpires = G(p).token.accessTokenExpires
           /\ G(p).out.error = RefreshAccessTokenError
           /\ G(p).session.present
           /\ G(p).session.value.accessToken = G(p).token.accessToken
           /\ G(p).session.value.error = RefreshAccessTokenError

C3_Witness ==
    \E p \in Gates :
        /\ Refreshed(G(p))
        /\ FailedExchange(G(p).resp)
        /\ G(p).token.accessToken = "A1"
        /\ G(p).session.value.accessToken = "A1"

(***************************************************************************)
(* C4.  A request whose record is unexpired when jwt looks at it makes no  *)
(* call to the token endpoint and returns the record unchanged.            *)
(***************************************************************************)
C4_FreshNoCall ==
    \A p \in Gates :
        (/\ G(p).pc \notin {"idle", "ready"}
         /\ req[p[1]].jar.present
         /\ ~G(p).expired)
        => /\ G(p).pc = "done"
           /\ G(p).calls = 0
           /\ G(p).out = Decode(req[p[1]].jar)
           /\ req[p[1]].setCookie.present

C4_Witness ==
    \E p \in Gates :
        /\ G(p).pc = "done"
        /\ req[p[1]].jar.present
        /\ ~G(p).expired
        /\ G(p).out.accessToken = "A1"

(***************************************************************************)
(* C5.  A request whose record is expired makes exactly one refresh call,  *)
(* the /contacts request included, which resolves the session in the root  *)
(* layout load and in the page load.                                       *)
(***************************************************************************)
C5_OneRefreshPerRequest ==
    \A r \in Requests :
        (/\ req[r].kind # "none"
         /\ req[r].jar.present
         /\ \A w \in Loads :
              gate[r][w].pc # "idle" => gate[r][w].pc = "done" /\ gate[r][w].expired)
        => Calls(r) = 1

C7_RefreshTokenRotation ==
    \A p \in Gates :
        (Refreshed(G(p)) /\ OkJson(G(p).resp))
        => G(p).out.refreshToken =
             IF G(p).resp.body.refresh_token # Undefined
             THEN G(p).resp.body.refresh_token
             ELSE G(p).token.refreshToken

C7_Witness ==
    \E p, q \in Gates :
        /\ Refreshed(G(p)) /\ SuccessfulExchange(G(p).resp)
        /\ G(p).resp.body.refresh_token = "R2"
        /\ G(p).token.refreshToken = "R1"
        /\ G(p).out.refreshToken = "R2"
        /\ Refreshed(G(q)) /\ SuccessfulExchange(G(q).resp)
        /\ G(q).resp.body.refresh_token = Undefined
        /\ G(q).out.refreshToken = "R1"

(***************************************************************************)
(* C8.  Every exchange that is not a success (no connection, a status      *)
(* outside 2xx, a body that is not JSON, a 2xx body without access_token   *)
(* or expires_in) gives the record with the error and the prior tokens;    *)
(* none stores an undefined accessToken or a non-numeric                   *)
(* accessTokenExpires.                                                     *)
(***************************************************************************)
C8_EveryFailureIsRefreshFailed ==
    \A p \in Gates :
        (Refreshed(G(p)) /\ ~SuccessfulExchange(G(p).resp))
        => /\ G(p).out = [G(p).token EXCEPT !.error = RefreshAccessTokenError]
           /\ G(p).out.accessToken # Undefined
           /\ G(p).out.accessTokenExpires.k = "num"

(***************************************************************************)
(* C9 as stated.  The accessTokenExpires stored by a successful refresh is *)
(* never later than the instant the IDP stops honouring the token, t0 +    *)
(* expires_in * 1000, t0 being the time the IDP issued it.                 *)
(***************************************************************************)
C9_NeverOverCounts ==
    \A p \in Gates :
        (Refreshed(G(p)) /\ SuccessfulExchange(G(p).resp))
        => G(p).out.accessTokenExpires.n
             <= G(p).t0 + G(p).resp.body.expires_in.n * MsPerSec

(***************************************************************************)
(* C9 amended.  The accessTokenExpires stored by a successful refresh is   *)
(* the receipt time plus expires_in * 1000; it is never earlier than the   *)
(* instant the IDP stops honouring the token and exceeds it by the time    *)
(* the response took.                                                      *)
(***************************************************************************)
C9_ExpiryFromReceipt ==
    \A p \in Gates :
        (Refreshed(G(p)) /\ SuccessfulExchange(G(p).resp))
        => LET idpEnd == G(p).t0 + G(p).resp.body.expires_in.n * MsPerSec IN
           /\ G(p).t0 <= G(p).at
           /\ G(p).out.accessTokenExpires.k = "num"
           /\ G(p).out.accessTokenExpires.n >= idpEnd
           /\ G(p).out.accessTokenExpires.n - idpEnd = G(p).at - G(p).t0

C9_Witness ==
    \E p \in Gates :
        /\ Refreshed(G(p))
        /\ SuccessfulExchange(G(p).resp)
        /\ G(p).t0 < G(p).at
        /\ G(p).out.accessTokenExpires.n
             > G(p).t0 + G(p).resp.body.expires_in.n * MsPerSec

(***************************************************************************)
(* C10.  The Session never contains the refreshToken: it has the           *)
(* properties user, expires, accessToken and error and none of them holds  *)
(* a refresh token, and the bearer token of the contacts fetch is no       *)
(* refresh token either.                                                   *)
(***************************************************************************)
C10_SessionHidesRefreshToken ==
    /\ \A p \in Gates :
         G(p).session.present
         => /\ DOMAIN G(p).session.value = {"user", "expires", "accessToken", "error"}
            /\ \A f \in DOMAIN G(p).session.value :
                 G(p).session.value[f] \notin RefreshTokens
    /\ \A r \in Requests : req[r].bearer \notin RefreshTokens

C10_Witness ==
    \E p, q \in Gates :
        /\ Refreshed(G(p)) /\ SuccessfulExchange(G(p).resp)
        /\ G(p).out.refreshToken = "R2"
        /\ G(p).session.present
        /\ Refreshed(G(q)) /\ FailedExchange(G(q).resp)
        /\ G(q).out.refreshToken = "R1"
        /\ G(q).session.present

(***************************************************************************)
(* C11.  The projection is exact: Session.accessToken is the accessToken   *)
(* of the record the request resolved, and Session.error is                *)
(* RefreshAccessTokenError exactly when the most recent refresh attempt    *)
(* failed (here: the attempt made by the request itself).                  *)
(***************************************************************************)
C11_SessionProjectionExact ==
    \A p \in Gates :
        (G(p).pc = "done" /\ G(p).session.present)
        => /\ G(p).session.value.accessToken = G(p).out.accessToken
           /\ Refreshed(G(p))
              => (G(p).session.value.error = RefreshAccessTokenError
                  <=> FailedExchange(G(p).resp))

(***************************************************************************)
(* C12.  The sign-in callback sets accessToken, refreshToken and           *)
(* accessTokenExpires = expires_at * 1000 from the grant whatever the      *)
(* cookie held (nothing of the old record stays, its error included), and  *)
(* the step touches no call of locals.auth(): no refresh is started, also  *)
(* when the new expiry is not in the future.                               *)
(***************************************************************************)
C12_SignInPopulates ==
    [][(cookie' # cookie /\ cookie'.present /\ req' = req)
       => /\ gate' = gate
          /\ now' = now
          /\ \E u \in Users, account \in Accounts(now) :
               cookie'.token =
                 [user |-> u,
                  accessToken |-> account.access_token,
                  refreshToken |-> account.refresh_token,
                  accessTokenExpires |-> Num(account.expires_at.n * MsPerSec),
                  error |-> Undefined]]_vars

\* signed in with a grant whose expiry is not in the future (only the sign-in
\* callback leaves this record: a refresh marks it or moves the expiry),
\* nothing in flight
C12_Witness ==
    /\ cookie.present
    /\ cookie.token.accessToken = "A1"
    /\ cookie.token.refreshToken = "R1"
    /\ cookie.token.error = Undefined
    /\ cookie.token.accessTokenExpires = Num(0)
    /\ ~JsLt(Num(now), cookie.token.accessTokenExpires)
    /\ \A p \in Gates : G(p).pc = "idle"

(***************************************************************************)
(* C14.  When the fetch of the refresh call rejects because the request    *)
(* was aborted, the record is left as it was in every field, error         *)
(* included.                                                               *)
(***************************************************************************)
C14_AbortLeavesRecord ==
    \A p \in Gates :
        (Refreshed(G(p)) /\ G(p).resp.net = "error")
        => /\ G(p).out = G(p).token
           /\ G(p).session.value.error = G(p).token.error

(***************************************************************************)
(* C15.  The contacts page load never throws: it returns the parsed list   *)
(* on a 2xx answer and { contacts: [] } otherwise, a failed fetch          *)
(* included.                                                               *)
(***************************************************************************)
C15_ContactsLoadNeverThrows ==
    \A r \in Requests : req[r].result \in {"none", "contacts", "empty"}

(***************************************************************************)
(* C16.  With no session cookie the Session is null, no call to the token  *)
(* endpoint is made, no cookie is set, and the contacts load goes on with  *)
(* an undefined accessToken.                                               *)
(***************************************************************************)
C16_NoSession ==
    \A r \in Requests :
        (req[r].kind # "none" /\ ~req[r].jar.present)
        => /\ \A w \in Loads :
                /\ gate[r][w].pc \in {"idle", "ready", "done"}
                /\ gate[r][w].calls = 0
                /\ ~gate[r][w].session.present
           /\ ~req[r].setCookie.present
           /\ req[r].bearer = Undefined

C16_Witness ==
    \E r \in Requests :
        /\ req[r].kind = "contacts"
        /\ ~req[r].jar.present
        /\ gate[r]["layout"].pc = "done"
        /\ gate[r]["page"].pc = "done"
        /\ req[r].result = "contacts"
        /\ req[r].bearer = Undefined

(***************************************************************************)
(* C13.  Two requests of one session that both read the same expired       *)
(* record both call the token endpoint with the same refresh token (none   *)
(* waits for the other, none reuses the other's result), and the record    *)
(* the browser keeps is the one of the response that arrived last.         *)
(***************************************************************************)
C13_ConcurrentRefreshRace ==
    /\ [](\A r, q \in RaceRequests :
            (/\ r # q
             /\ gate[r]["layout"].pc \notin {"idle", "ready"}
             /\ gate[q]["layout"].pc \notin {"idle", "ready"}
             /\ req[r].jar = req[q].jar
             /\ gate[r]["layout"].expired
             /\ gate[q]["layout"].expired)
            => /\ gate[r]["layout"].calls = 1
               /\ gate[q]["layout"].calls = 1
               /\ gate[r]["layout"].sent = Decode(req[r].jar).refreshToken
               /\ gate[q]["layout"].sent = gate[r]["layout"].sent)
    /\ [][\A r \in RaceRequests :
            (req[r].kind # "none" /\ req'[r].kind = "none")
            => cookie' = req[r].setCookie]_vars

\* both requests have refreshed the same record with different results, and
\* neither response has reached the browser yet
C13_Witness ==
    \E r, q \in RaceRequests :
        /\ r # q
        /\ req[r].jar = req[q].jar
        /\ req[r].jar = cookie
        /\ Refreshed(gate[r]["layout"]) /\ SuccessfulExchange(gate[r]["layout"].resp)
        /\ Refreshed(gate[q]["layout"]) /\ FailedExchange(gate[q]["layout"].resp)
        /\ gate[r]["layout"].sent = "R1"
        /\ gate[q]["layout"].sent = "R1"
        /\ req[r].setCookie # req[q].setCookie

(***************************************************************************)
(* C17.  Rule 1 comes first: every url that starts with baseUrl +          *)
(* "/signin", a query string or a longer path after it included, is        *)
(* answered with exactly baseUrl + "/contacts".                            *)
(***************************************************************************)
C17_SigninLandsOnContacts ==
    (Redirected /\ StartsWith(redir.url, redir.baseUrl \o Signin))
    => redir.out = Returns(redir.baseUrl \o Contacts)

C17_Witness ==
    /\ redir.pc = "returned"
    /\ redir.baseUrl = BaseOrigin
    /\ redir.url = <<"https:", "/", "/", "app", "/", "signin", "?", "x">>
    /\ redir.out.value = <<"https:", "/", "/", "app", "/", "contacts">>

(***************************************************************************)
(* C18.  Rule 4: an absolute url whose origin is not the origin of baseUrl *)
(* is answered with baseUrl, never with the foreign url.                   *)
(***************************************************************************)
C18_ForeignOriginRejected ==
    (/\ Redirected
     /\ IsAbsolute(redir.url)
     /\ Origin(redir.url) # Origin(redir.baseUrl))
    => /\ redir.out = Returns(redir.baseUrl)
       /\ redir.out.value # redir.url

C18_Witness ==
    /\ redir.pc = "returned"
    /\ redir.baseUrl = BaseOrigin
    /\ redir.url = <<"https:", "/", "/", "evil", "/", "x">>
    /\ redir.out.value = BaseOrigin

(***************************************************************************)
(* C19.  Rule 3: an absolute url that does not start with baseUrl +        *)
(* "/signin" and whose origin is the origin of baseUrl is returned         *)
(* unchanged, whatever the form of baseUrl (trailing slash, path).         *)
(***************************************************************************)
C19_SameOriginUnchanged ==
    (/\ Redirected
     /\ IsAbsolute(redir.url)
     /\ ~StartsWith(redir.url, redir.baseUrl \o Signin)
     /\ Origin(redir.url) = Origin(redir.baseUrl))
    => redir.out = Returns(redir.url)

(***************************************************************************)
(* C20.  Rule 2: a url that starts with "/" (and not with baseUrl +        *)
(* "/signin") is answered with baseUrl followed by the url.                *)
(***************************************************************************)
C20_RelativeJoinsBase ==
    (/\ Redirected
     /\ StartsWith(redir.url, <<"/">>)
     /\ ~StartsWith(redir.url, redir.baseUrl \o Signin))
    => redir.out = Returns(redir.baseUrl \o redir.url)

C20_Witness ==
    /\ redir.pc = "returned"
    /\ redir.baseUrl = BaseOrigin
    /\ redir.url = <<"/", "x">>
    /\ redir.out.value = <<"https:", "/", "/", "app", "/", "x">>

(***************************************************************************)
(* C21.  redirect is idempotent on same-origin absolute URLs: for every    *)
(* baseUrl b and every absolute url u with the origin of b,                *)
(* redirect(redirect(u, b), b) = redirect(u, b).                           *)
(***************************************************************************)
C21_RedirectIdempotent ==
    (/\ redir.pc = "followed"
     /\ IsAbsolute(redir.url)
     /\ Origin(redir.url) = Origin(redir.baseUrl))
    => redir.again = redir.out

(***************************************************************************)
(* C22.  redirect is total: for every url, one that is neither a relative  *)
(* path nor a parseable absolute URL included, it returns a string and     *)
(* does not throw.                                                         *)
(***************************************************************************)
C22_RedirectNeverThrows ==
    Redirected => ~redir.out.throws

(***************************************************************************)
(* C27.  Whatever redirect returns is baseUrl, a string that begins with   *)
(* baseUrl, or a url whose origin equals baseUrl; it is never a target on  *)
(* an origin other than that of baseUrl.                                   *)
(***************************************************************************)
C27_RedirectStaysOnOrigin ==
    (Redirected /\ ~redir.out.throws)
    => /\ \/ redir.out.value = redir.baseUrl
          \/ StartsWith(redir.out.value, redir.baseUrl)
          \/ Origin(redir.out.value) = redir.baseUrl
       /\ IsAbsolute(redir.out.value)
       /\ Origin(redir.out.value) = Origin(redir.baseUrl)

\* a scheme-relative url is joined to the base and stays on its origin
C27_Witness ==
    /\ redir.pc = "returned"
    /\ redir.baseUrl = BaseOrigin
    /\ redir.url = <<"/", "/", "x", "@">>
    /\ redir.out.value = <<"https:", "/", "/", "app", "/", "/", "x", "@">>
    /\ Origin(redir.out.value) = BaseOrigin

(***************************************************************************)
(* C23.  refreshAccessToken has no effect on its input: the token it was   *)
(* given is the same after the call, and the record it returns carries     *)
(* the user claims of the input, on the success and on the failure path.   *)
(***************************************************************************)
C23_RefreshLeavesInput ==
    [][\A p \in Gates :
        (G(p).pc = "responded" /\ gate'[p[1]][p[2]].pc = "done")
        => /\ gate'[p[1]][p[2]].token = G(p).token
           /\ gate'[p[1]][p[2]].token = Decode(req'[p[1]].jar)
           /\ gate'[p[1]][p[2]].out.user = G(p).token.user]_vars

\* one request whose layout load refreshed with a failure and whose page
\* load refreshed with success, each result with the user of the input
C23_Witness ==
    \E r \in Requests :
        /\ Refreshed(gate[r]["layout"]) /\ FailedExchange(gate[r]["layout"].resp)
        /\ Refreshed(gate[r]["page"]) /\ SuccessfulExchange(gate[r]["page"].resp)
        /\ \A w \in Loads :
            /\ gate[r][w].token = Decode(req[r].jar)
            /\ gate[r][w].token.user = "alice"
            /\ gate[r][w].out.user = "alice"
        /\ gate[r]["page"].out.accessToken = "A2"
        /\ gate[r]["layout"].out.error = RefreshAccessTokenError

(***************************************************************************)
(* C25.  No lost update: once the record of a successful refresh (access   *)
(* token A2) is persisted, no later persist of a concurrent request of     *)
(* the session puts back the older access token A1 or the older refresh    *)
(* token, nor marks the record with RefreshAccessTokenError.               *)
(***************************************************************************)
C25_NoLostUpdate ==
    [][(cookie.present /\ cookie.token.accessToken = "A2")
       => /\ cookie'.token.accessToken # "A1"
          /\ cookie.token.refreshToken = "R2" => cookie'.token.refreshToken # "R1"
          /\ cookie.token.error = Undefined
             => cookie'.token.error # RefreshAccessTokenError]_vars

(***************************************************************************)
(* C24.  With requests that do not overlap and an endpoint that rotates    *)
(* refresh tokens, every refresh call presents the refresh token the       *)
(* endpoint issued last, and the stored refresh token is the one the       *)
(* endpoint accepts, through fresh requests, successful refreshes and      *)
(* refreshes that fail because the endpoint is unreachable.                *)
(***************************************************************************)
C24_PresentsNewestRefreshToken ==
    /\ \A p \in Gates : G(p).pc = "fetching" => G(p).sent = idp.valid
    /\ (\A r \in Requests : req[r].kind = "none")
       => cookie.token.refreshToken = idp.valid

=============================================================================
